---- MODULE Spec2Model ----
(***************************************************************************)
(* Model of make_docker_images.py: the DockerClass holder, the version     *)
(* codec, the MPI name parser, the two recipe builders and the loop of     *)
(* main().                                                                 *)
(*                                                                         *)
(* A Python str is a sequence of one-character strings ("" is << >>).      *)
(* The three control characters TLA+ cannot escape are the tokens "BEL",   *)
(* "BS" and "VT".  A Python value whose type the code tests is a record    *)
(* [type, val].  A recipe text is a sequence of segments, one per piece of *)
(* the string concatenation that builds it.                                *)
(***************************************************************************)
EXTENDS Integers, Sequences, FiniteSets, TLC

VARIABLES machine_targets, mpi_targets, args, pc, k, docker, fs, events,
          visited, any_failed, obj, result, name_in, parsed

vars == <<machine_targets, mpi_targets, args, pc, k, docker, fs, events,
          visited, any_failed, obj, result, name_in, parsed>>

mainVars == <<machine_targets, mpi_targets, args, pc, k, docker, events,
              visited, any_failed>>
objVars == <<obj, result>>
parseVars == <<name_in, parsed>>

----------------------------------------------------------------------------
(* Bounds of the model *)

MaxMachines == 2
MaxMpis == 2
MaxTail == 8

----------------------------------------------------------------------------
(* Python values *)

PyStr(s) == [type |-> "str", val |-> s]
PyNone == [type |-> "NoneType", val |-> << >>]

Min(a, b) == IF a < b THEN a ELSE b

\* s[i:] and s[0:j] of Python, i and j counted from 0
SliceFrom(s, i) == SubSeq(s, i + 1, Len(s))
SliceTo(s, j) == SubSeq(s, 1, Min(j, Len(s)))

DigitChars == <<"0", "1", "2", "3", "4", "5", "6", "7", "8", "9">>
IsDigit(c) == \E i \in 1..10 : DigitChars[i] = c
DigitVal(c) == CHOOSE d \in 0..9 : DigitChars[d + 1] = c

\* int(x) of a run of decimal digits
RECURSIVE int(_)
int(x) == IF x = << >> THEN 0
          ELSE 10 * int(SubSeq(x, 1, Len(x) - 1)) + DigitVal(x[Len(x)])

\* str(n) of a non-negative integer
RECURSIVE str(_)
str(n) == IF n < 10 THEN <<DigitChars[n + 1]>>
          ELSE str(n \div 10) \o <<DigitChars[(n % 10) + 1]>>

----------------------------------------------------------------------------
(* Module-level settings *)

s_generic == <<"g", "e", "n", "e", "r", "i", "c">>
s_galaxy == <<"g", "a", "l", "a", "x", "y">>
s_mpich == <<"m", "p", "i", "c", "h">>
s_openmpi == <<"o", "p", "e", "n", "m", "p", "i">>

git_branch == <<"d", "e", "v", "e", "l", "o", "p">>

forbidden_chars == <<"?", "!", "@", "#", "$", "%", "^", "&", "*", " ", ";",
                     "<", ">", "?", "|", "\"", "BEL", "BS", "\f", "\n", "\r",
                     "\t", "VT">>

\* the characters of the list, for the test name.find(c) >= 0 of each
forbidden_set == {forbidden_chars[i] : i \in 1..Len(forbidden_chars)}

\* one segment of a generated text: a fixed piece of the template (tag)
\* with the strings interpolated into it
Seg(tag, a) == [tag |-> tag, args |-> a]

header == <<Seg("header", << >>)>>

----------------------------------------------------------------------------
(* is_proper_name *)

\* is_proper_name whose loop looks for the first listed character only
is_proper_name_first_char_only(name) ==
    IF name.type # "str" THEN [raised |-> TRUE, ret |-> FALSE]
    ELSE IF name.val = << >> THEN [raised |-> FALSE, ret |-> FALSE]
    ELSE IF \E j \in 1..Len(name.val) : name.val[j] = forbidden_chars[1]
         THEN [raised |-> FALSE, ret |-> FALSE]
    ELSE [raised |-> FALSE, ret |-> TRUE]

is_proper_name(name) ==
    IF name.type # "str" THEN [raised |-> TRUE, ret |-> FALSE]
    ELSE IF name.val = << >> THEN [raised |-> FALSE, ret |-> FALSE]
    ELSE IF \E j \in 1..Len(name.val) : name.val[j] \in forbidden_set
         THEN [raised |-> FALSE, ret |-> FALSE]
    ELSE [raised |-> FALSE, ret |-> TRUE]

----------------------------------------------------------------------------
(* DockerClass *)

DockerClass == [recipe_name |-> << >>, image_name |-> << >>, recipe |-> << >>]

set_recipe_name(self, recipe_name) ==
    LET p == is_proper_name(recipe_name) IN
    IF ~p.raised /\ p.ret
    THEN [raised |-> FALSE, self |-> [self EXCEPT !.recipe_name = recipe_name.val]]
    ELSE [raised |-> TRUE, self |-> self]

set_recipe(self, recipe) ==
    IF recipe.type = "str"
    THEN IF recipe.val # << >>
         THEN [raised |-> FALSE, self |-> [self EXCEPT !.recipe = recipe.val]]
         ELSE [raised |-> TRUE, self |-> self]
    ELSE [raised |-> TRUE, self |-> self]

set_image_name(self, image_name) ==
    LET p == is_proper_name(image_name) IN
    IF ~p.raised /\ p.ret
    THEN [raised |-> FALSE, self |-> [self EXCEPT !.image_name = image_name.val]]
    ELSE [raised |-> TRUE, self |-> self]

\* open(name, "w") followed by write(text): the file is created or replaced
WriteFile(files, name, text) ==
    [n \in (DOMAIN files) \cup {name} |-> IF n = name THEN text ELSE files[n]]

\* write_recipe without the test of the recipe text
write_recipe_no_text_check(self, files) ==
    IF self.recipe_name = << >> THEN [raised |-> TRUE, fs |-> files, wrote |-> FALSE]
    ELSE [raised |-> FALSE,
          fs |-> WriteFile(files, self.recipe_name, self.recipe),
          wrote |-> TRUE]

write_recipe(self, files) ==
    IF self.recipe_name = << >> THEN [raised |-> TRUE, fs |-> files, wrote |-> FALSE]
    ELSE IF self.recipe = << >> THEN [raised |-> TRUE, fs |-> files, wrote |-> FALSE]
    ELSE [raised |-> FALSE,
          fs |-> WriteFile(files, self.recipe_name, self.recipe),
          wrote |-> TRUE]

s_docker_build == <<"d", "o", "c", "k", "e", "r", " ", "b", "u", "i", "l", "d",
                    " ", "-", "-", "n", "o", "-", "c", "a", "c", "h", "e", " ",
                    "-", "-", "p", "u", "l", "l", " ", "-", "t", " ">>
s_dash_f == <<" ", "-", "f", " ">>
s_dot == <<" ", ".">>

get_build_command(self) ==
    IF self.recipe_name = << >> THEN [raised |-> TRUE, ret |-> << >>]
    ELSE IF self.image_name = << >> THEN [raised |-> TRUE, ret |-> << >>]
    ELSE [raised |-> FALSE,
          ret |-> s_docker_build \o self.image_name \o s_dash_f
                  \o self.recipe_name \o s_dot]

\* Path(name).is_file()
is_file(files, name) == name \in DOMAIN files

\* build_image without the is_file test
build_image_no_file_check(self, files, rc) ==
    LET build_command == get_build_command(self) IN
    IF build_command.raised THEN [raised |-> TRUE, ran |-> FALSE, cmd |-> << >>]
    ELSE [raised |-> FALSE, ran |-> TRUE, cmd |-> build_command.ret]

\* build_image with subprocess.run(..., check=True): a failed build raises
build_image_checked(self, files, rc) ==
    LET build_command == get_build_command(self) IN
    IF build_command.raised THEN [raised |-> TRUE, ran |-> FALSE, cmd |-> << >>]
    ELSE IF self.recipe_name = << >> THEN [raised |-> TRUE, ran |-> FALSE, cmd |-> << >>]
    ELSE IF is_file(files, self.recipe_name)
         THEN [raised |-> (rc = "fail"), ran |-> TRUE, cmd |-> build_command.ret]
         ELSE [raised |-> TRUE, ran |-> FALSE, cmd |-> << >>]

\* rc is the exit status of the external process started by subprocess.run;
\* the call returns it in a CompletedProcess that build_image drops
build_image(self, files, rc) ==
    LET build_command == get_build_command(self) IN
    IF build_command.raised THEN [raised |-> TRUE, ran |-> FALSE, cmd |-> << >>]
    ELSE IF self.recipe_name = << >> THEN [raised |-> TRUE, ran |-> FALSE, cmd |-> << >>]
    ELSE IF is_file(files, self.recipe_name)
         THEN [raised |-> FALSE, ran |-> TRUE, cmd |-> build_command.ret]
         ELSE [raised |-> TRUE, ran |-> FALSE, cmd |-> << >>]

----------------------------------------------------------------------------
(* Version codec *)

\* re.findall(r'\d+', s): the maximal digit runs of s, left to right.
\* cur is the run being scanned, acc the runs already closed.
RECURSIVE findall_digits(_, _, _)
findall_digits(s, cur, acc) ==
    IF s = << >> THEN (IF cur = << >> THEN acc ELSE Append(acc, cur))
    ELSE IF IsDigit(Head(s)) THEN findall_digits(Tail(s), Append(cur, Head(s)), acc)
    ELSE findall_digits(Tail(s), << >>,
                        IF cur = << >> THEN acc ELSE Append(acc, cur))

\* split_version_number that takes the first three of three or more runs
split_version_number_first_three(input_ver) ==
    LET string_list == findall_digits(input_ver, << >>, << >>) IN
    IF Len(string_list) >= 3
    THEN <<int(string_list[1]), int(string_list[2]), int(string_list[3])>>
    ELSE << >>

split_version_number(input_ver) ==
    LET string_list == findall_digits(input_ver, << >>, << >>) IN
    IF Len(string_list) = 3
    THEN <<int(string_list[1]), int(string_list[2]), int(string_list[3])>>
    ELSE << >>

\* a value that is either None or a list of integers
NoVersion == [isList |-> FALSE, list |-> << >>]
ListOf(l) == [isList |-> TRUE, list |-> l]

compose_version_number(int_list) ==
    IF int_list.isList
    THEN IF Len(int_list.list) = 3
         THEN str(int_list.list[1]) \o <<".">> \o str(int_list.list[2])
              \o <<".">> \o str(int_list.list[3])
         ELSE << >>
    ELSE << >>

----------------------------------------------------------------------------
(* MPI name parser *)

ParseError == [raised |-> TRUE, mpi_type |-> << >>, mpi_num |-> NoVersion]

get_mpi_type_and_version(name) ==
    IF name.type # "str" THEN ParseError
    ELSE
    LET s == name.val
        length == Len(s)
    IN
    IF length < 5 THEN ParseError
    ELSE IF length = 5
         THEN IF s = s_mpich
              THEN [raised |-> FALSE, mpi_type |-> s_mpich, mpi_num |-> NoVersion]
              ELSE ParseError
    ELSE IF length = 6 THEN ParseError
    ELSE IF length = 7
         THEN IF s = s_openmpi
              THEN [raised |-> FALSE, mpi_type |-> s_openmpi, mpi_num |-> NoVersion]
              ELSE ParseError
    ELSE IF SliceTo(s, 5) = s_mpich
         THEN LET int_ver == split_version_number(SliceFrom(s, 6)) IN
              IF Len(int_ver) = 3
              THEN [raised |-> FALSE, mpi_type |-> s_mpich, mpi_num |-> ListOf(int_ver)]
              ELSE ParseError
    ELSE IF SliceTo(s, 7) = s_openmpi
         THEN LET int_ver == split_version_number(SliceFrom(s, 8)) IN
              IF Len(int_ver) = 3
              THEN [raised |-> FALSE, mpi_type |-> s_openmpi, mpi_num |-> ListOf(int_ver)]
              ELSE ParseError
    ELSE ParseError

----------------------------------------------------------------------------
(* Recipe builders *)

s_ubuntu == <<"u", "b", "u", "n", "t", "u", ":", "b", "i", "o", "n", "i", "c">>
s_pawsey == <<"p", "a", "w", "s", "e", "y", "/", "m", "p", "i", "c", "h", "-",
              "b", "a", "s", "e", ":", "3", ".", "1", ".", "4", "_", "u", "b",
              "u", "n", "t", "u", "1", "8", ".", "0", "4">>
s_yandabase == <<"D", "o", "c", "k", "e", "r", "f", "i", "l", "e", "-", "y",
                 "a", "n", "d", "a", "b", "a", "s", "e", "-">>
s_yandasoft == <<"D", "o", "c", "k", "e", "r", "f", "i", "l", "e", "-", "y",
                 "a", "n", "d", "a", "s", "o", "f", "t", "-">>

\* one effect of a stage on the outside world: a file written (name, text),
\* the external tool started (command), a command printed
Effect(op, name, data) == [op |-> op, name |-> name, data |-> data]

\* a stage that, when it raises, removes the files written so far
StageRaise_rollback(files, eff) ==
    [raised |-> TRUE, docker |-> DockerClass, fs |-> << >>, effects |-> eff]

StageRaise(files, eff) ==
    [raised |-> TRUE, docker |-> DockerClass, fs |-> files, effects |-> eff]

\* "FROM " + image + " as buildenv\n"
from_part(image) == <<Seg("FROM", <<image>>)>>

common_top_part == <<Seg("common_top", << >>)>>
common_bottom_part == <<Seg("common_bottom", << >>)>>
common_part == <<Seg("common", <<git_branch>>)>>

\* the MPI part with the packaged OpenMPI installed when no version is given
mpi_part_of_default_openmpi(mpi_type, mpi_ver, mpi) ==
    IF mpi_type = s_mpich
    THEN IF mpi_ver = << >>
         THEN [raised |-> FALSE, text |-> <<Seg("mpich_apt", << >>)>>]
         ELSE [raised |-> FALSE, text |-> <<Seg("mpich_src", <<mpi_ver, mpi>>)>>]
    ELSE IF mpi_type = s_openmpi
    THEN IF mpi_ver = << >>
         THEN [raised |-> FALSE, text |-> <<Seg("openmpi_apt", << >>)>>]
         ELSE LET int_ver == split_version_number(mpi_ver)
                  ver_dir == <<"v">> \o str(int_ver[1]) \o <<".">> \o str(int_ver[2])
              IN [raised |-> FALSE, text |-> <<Seg("openmpi_src", <<ver_dir, mpi>>)>>]
    ELSE [raised |-> TRUE, text |-> << >>]

\* the MPI part of the base recipe of the generic machine
mpi_part_of(mpi_type, mpi_ver, mpi) ==
    IF mpi_type = s_mpich
    THEN IF mpi_ver = << >>
         THEN [raised |-> FALSE, text |-> <<Seg("mpich_apt", << >>)>>]
         ELSE [raised |-> FALSE, text |-> <<Seg("mpich_src", <<mpi_ver, mpi>>)>>]
    ELSE IF mpi_type = s_openmpi
    THEN IF mpi_ver = << >>
         THEN [raised |-> TRUE, text |-> << >>]
         ELSE LET int_ver == split_version_number(mpi_ver)
                  ver_dir == <<"v">> \o str(int_ver[1]) \o <<".">> \o str(int_ver[2])
              IN [raised |-> FALSE, text |-> <<Seg("openmpi_src", <<ver_dir, mpi>>)>>]
    ELSE [raised |-> TRUE, text |-> << >>]

\* the label without the version: the kind alone
mpi_label_kind_only(mpi_type, mpi_num) == mpi_type

\* the short label of a generic target: the kind, then the first integer of
\* the version when there is a version list
mpi_label(mpi_type, mpi_num) ==
    IF mpi_num.isList THEN mpi_type \o str(mpi_num.list[1]) ELSE mpi_type

\* the tail of a stage that builds whatever the flag says
write_and_build_always(docker_target, actual, files, rc) ==
    LET w == write_recipe(docker_target, files)
        e1 == IF w.wrote
              THEN <<Effect("write", docker_target.recipe_name, docker_target.recipe)>>
              ELSE << >>
    IN
    IF w.raised THEN StageRaise(w.fs, e1)
    ELSE LET b == build_image(docker_target, w.fs, rc)
             e2 == IF b.ran THEN e1 \o <<Effect("build", b.cmd, << >>)>> ELSE e1
         IN IF b.raised THEN StageRaise(w.fs, e2)
            ELSE [raised |-> FALSE, docker |-> docker_target, fs |-> w.fs,
                  effects |-> e2]

\* write_recipe, then build_image or print(get_build_command())
write_and_build(docker_target, actual, files, rc) ==
    LET w == write_recipe(docker_target, files)
        e1 == IF w.wrote
              THEN <<Effect("write", docker_target.recipe_name, docker_target.recipe)>>
              ELSE << >>
    IN
    IF w.raised THEN StageRaise(w.fs, e1)
    ELSE IF actual
         THEN LET b == build_image(docker_target, w.fs, rc)
                  e2 == IF b.ran THEN e1 \o <<Effect("build", b.cmd, << >>)>> ELSE e1
              IN IF b.raised THEN StageRaise(w.fs, e2)
                 ELSE [raised |-> FALSE, docker |-> docker_target, fs |-> w.fs,
                       effects |-> e2]
         ELSE LET c == get_build_command(docker_target) IN
              IF c.raised THEN StageRaise(w.fs, e1)
              ELSE [raised |-> FALSE, docker |-> docker_target, fs |-> w.fs,
                    effects |-> e1 \o <<Effect("print", c.ret, << >>)>>]

\* the three setter calls of a stage in the order given; the first that
\* raises ends the stage
set_all(docker_target, calls) ==
    LET step(d, c) ==
            IF d.raised THEN d
            ELSE IF c.f = "recipe_name" THEN set_recipe_name(d.self, PyStr(c.v))
            ELSE IF c.f = "image_name" THEN set_image_name(d.self, PyStr(c.v))
            ELSE set_recipe(d.self, PyStr(c.v))
        d0 == [raised |-> FALSE, self |-> docker_target]
        d1 == step(d0, calls[1])
        d2 == step(d1, calls[2])
    IN step(d2, calls[3])

make_base_image(machine, mpi, prepend, append, actual, files, rc) ==
    LET docker_target == DockerClass IN
    IF machine = s_generic
    THEN LET base_system_part == from_part(s_ubuntu)
             tv == get_mpi_type_and_version(mpi)
         IN
         IF tv.raised THEN StageRaise(files, << >>)
         ELSE
         LET mpi_ver == compose_version_number(tv.mpi_num)
             mpi_part == mpi_part_of(tv.mpi_type, mpi_ver, mpi.val)
         IN
         IF mpi_part.raised THEN StageRaise(files, << >>)
         ELSE
         LET label == mpi_label(tv.mpi_type, tv.mpi_num)
             d == set_all(docker_target,
                    << [f |-> "recipe_name", v |-> s_yandabase \o label],
                       [f |-> "image_name", v |-> prepend \o label \o append],
                       [f |-> "recipe", v |-> header \o base_system_part
                            \o common_top_part \o mpi_part.text \o common_bottom_part] >>)
         IN IF d.raised THEN StageRaise(files, << >>)
            ELSE write_and_build(d.self, actual, files, rc)
    ELSE IF machine = s_galaxy
    THEN LET base_system_part == from_part(s_pawsey)
             d == set_all(docker_target,
                    << [f |-> "recipe_name", v |-> s_yandabase \o machine],
                       [f |-> "image_name", v |-> prepend \o machine \o append],
                       [f |-> "recipe", v |-> header \o base_system_part
                            \o common_top_part \o common_bottom_part] >>)
         IN IF d.raised THEN StageRaise(files, << >>)
            ELSE write_and_build(d.self, actual, files, rc)
    ELSE StageRaise(files, << >>)

make_final_image(machine, mpi, prepend, append, base_image, actual, files, rc) ==
    LET base_part == from_part(base_image) IN
    IF machine = s_generic
    THEN LET docker_target == DockerClass
             tv == get_mpi_type_and_version(mpi)
         IN
         IF tv.raised THEN StageRaise(files, << >>)
         ELSE
         LET label == mpi_label(tv.mpi_type, tv.mpi_num)
             d == set_all(docker_target,
                    << [f |-> "recipe_name", v |-> s_yandasoft \o label],
                       [f |-> "recipe", v |-> header \o base_part \o common_part],
                       [f |-> "image_name", v |-> prepend \o label \o append] >>)
         IN IF d.raised THEN StageRaise(files, << >>)
            ELSE write_and_build(d.self, actual, files, rc)
    ELSE IF machine = s_galaxy
    THEN LET docker_target == DockerClass
             d == set_all(docker_target,
                    << [f |-> "recipe_name", v |-> s_yandasoft \o machine],
                       [f |-> "recipe", v |-> header \o base_part \o common_part],
                       [f |-> "image_name", v |-> prepend \o machine \o append] >>)
         IN IF d.raised THEN StageRaise(files, << >>)
            ELSE write_and_build(d.self, actual, files, rc)
    ELSE StageRaise(files, << >>)

----------------------------------------------------------------------------
(* main() *)

s_magnus == <<"m", "a", "g", "n", "u", "s">>
s_openmp == <<"o", "p", "e", "n", "m", "p">>
s_openmpi_316 == <<"o", "p", "e", "n", "m", "p", "i", "-", "3", ".", "1", ".", "6">>
s_openmpi_304 == <<"o", "p", "e", "n", "m", "p", "i", "-", "3", ".", "0", ".", "4">>
s_mpich_332 == <<"m", "p", "i", "c", "h", "-", "3", ".", "3", ".", "2">>

\* the values the two target lists of the settings section are drawn from
MachineNames == {s_generic, s_galaxy, s_magnus}
MpiNames == {s_mpich, s_openmpi, s_openmpi_316, s_openmpi_304, s_mpich_332, s_openmp}

SeqsUpTo(S, n) == UNION {[1..m -> S] : m \in 0..n}

s_release == <<"r", "e", "l", "e", "a", "s", "e", "/", "1", ".", "1", ".", "0">>
s_master == <<"m", "a", "s", "t", "e", "r">>

base_prepend == <<"c", "s", "i", "r", "o", "c", "a", "s", "s", "/", "y", "a",
                  "n", "d", "a", "b", "a", "s", "e", ":">>
final_prepend ==
    IF git_branch = s_release
    THEN <<"c", "s", "i", "r", "o", "c", "a", "s", "s", "/", "y", "a", "n", "d",
           "a", "s", "o", "f", "t", ":", "1", ".", "1", "-">>
    ELSE IF git_branch = s_master
    THEN <<"c", "s", "i", "r", "o", "c", "a", "s", "s", "/", "y", "a", "n", "d",
           "a", "s", "o", "f", "t", ":">>
    ELSE <<"c", "s", "i", "r", "o", "c", "a", "s", "s", "/", "y", "a", "n", "d",
           "a", "s", "o", "f", "t", ":", "d", "e", "v", "-">>
base_append == << >>
final_append == << >>

\* the iterations of the nested loop of main(), in the order the loop takes
\* them: mi and pi are the positions in machine_targets and mpi_targets
\* (pi = 0 for a specific machine, whose mpi argument is None)
RECURSIVE TargetsFrom(_, _, _)
TargetsFrom(machines, mpis, mi) ==
    IF mi > Len(machines) THEN << >>
    ELSE (IF machines[mi] = s_generic
          THEN [pi \in 1..Len(mpis) |->
                   [mi |-> mi, pi |-> pi, machine |-> machines[mi],
                    mpi |-> PyStr(mpis[pi])]]
          ELSE << [mi |-> mi, pi |-> 0, machine |-> machines[mi], mpi |-> PyNone] >>)
         \o TargetsFrom(machines, mpis, mi + 1)

Targets == TargetsFrom(machine_targets, mpi_targets, 1)

\* a loop that goes on to the next call after a stage has raised
main_after_skip_failed(stage, raised, kk, n) ==
    IF stage = "base" THEN [pc |-> "final", k |-> kk]
    ELSE IF kk < n THEN [pc |-> "base", k |-> kk + 1]
    ELSE [pc |-> "done", k |-> kk]

\* where main() is after a stage call: an exception leaves main(), a
\* returned object takes it to the next call
main_after(stage, raised, kk, n) ==
    IF raised THEN [pc |-> "aborted", k |-> kk]
    ELSE IF stage = "base" THEN [pc |-> "final", k |-> kk]
    ELSE IF kk < n THEN [pc |-> "base", k |-> kk + 1]
    ELSE [pc |-> "done", k |-> kk]

Tag(effects, kk, stage) ==
    [i \in 1..Len(effects) |->
        [k |-> kk, stage |-> stage, op |-> effects[i].op,
         name |-> effects[i].name, data |-> effects[i].data]]

\* one stage call of main(): its place in the loop, its arguments, whether
\* it raised and the image_name of the object it returned
Call(kk, stage, t, r) ==
    [k |-> kk, stage |-> stage, mi |-> t.mi, pi |-> t.pi,
     machine |-> t.machine, mpi |-> t.mpi, raised |-> r.raised,
     image_name |-> r.docker.image_name]

\* a variable that keeps the first object it was bound to
assign_docker_keep_first(old, returned) ==
    IF old.image_name # << >> THEN old ELSE returned

\* docker = make_base_image(...) / docker = make_final_image(...): the
\* variable of main() is rebound to the object the call returned
assign_docker(old, returned) == returned

ExitCodes == {"ok", "fail"}

InitIdle ==
    /\ obj = DockerClass
    /\ result = [op |-> "none", arg |-> PyNone, raised |-> FALSE,
                 ret |-> << >>, ran |-> FALSE]
    /\ name_in = << >>
    /\ parsed = [done |-> FALSE, r |-> ParseError]

\* the settings after map(str.lower, ...), the parsed arguments, and main()
\* about to test show_targets_only
Init ==
    /\ machine_targets \in SeqsUpTo(MachineNames, MaxMachines)
    /\ mpi_targets \in SeqsUpTo(MpiNames, MaxMpis)
    /\ args \in [base_image : BOOLEAN, final_image : BOOLEAN,
                 show_targets_only : BOOLEAN]
    /\ pc = "start"
    /\ k = 0
    /\ docker = DockerClass
    /\ fs = << >>
    /\ events = << >>
    /\ visited = << >>
    /\ any_failed = FALSE
    /\ InitIdle

\* show_targets(); sys.exit(0)
ShowTargets ==
    /\ pc = "start"
    /\ args.show_targets_only
    /\ pc' = "exit0"
    /\ UNCHANGED <<machine_targets, mpi_targets, args, k, docker, fs, events,
                   visited, any_failed, objVars, parseVars>>

\* from the argument check to the first iteration of the loop
Begin ==
    /\ pc = "start"
    /\ ~args.show_targets_only
    /\ IF Len(Targets) = 0 THEN pc' = "done" /\ k' = 0
                           ELSE pc' = "base" /\ k' = 1
    /\ UNCHANGED <<machine_targets, mpi_targets, args, docker, fs, events,
                   visited, any_failed, objVars, parseVars>>

RanBuild(effects) == \E i \in 1..Len(effects) : effects[i].op = "build"

BaseStage ==
    /\ pc = "base"
    /\ \E rc \in ExitCodes :
        \E t \in {Targets[k]} :
        \E r \in {make_base_image(t.machine, t.mpi, base_prepend, base_append,
                                  args.base_image, fs, rc)} :
        \E nx \in {main_after("base", r.raised, k, Len(Targets))} :
           /\ fs' = r.fs
           /\ events' = events \o Tag(r.effects, k, "base")
           /\ visited' = Append(visited, Call(k, "base", t, r))
           /\ docker' = IF r.raised THEN docker ELSE assign_docker(docker, r.docker)
           /\ any_failed' = (any_failed \/ (RanBuild(r.effects) /\ rc = "fail"))
           /\ pc' = nx.pc
           /\ k' = nx.k
    /\ UNCHANGED <<machine_targets, mpi_targets, args, objVars, parseVars>>

FinalStage ==
    /\ pc = "final"
    /\ \E rc \in ExitCodes :
        \E t \in {Targets[k]} :
        \E r \in {make_final_image(t.machine, t.mpi, final_prepend, final_append,
                                   docker.image_name, args.final_image, fs, rc)} :
        \E nx \in {main_after("final", r.raised, k, Len(Targets))} :
           /\ fs' = r.fs
           /\ events' = events \o Tag(r.effects, k, "final")
           /\ visited' = Append(visited, Call(k, "final", t, r))
           /\ docker' = IF r.raised THEN docker ELSE assign_docker(docker, r.docker)
           /\ any_failed' = (any_failed \/ (RanBuild(r.effects) /\ rc = "fail"))
           /\ pc' = nx.pc
           /\ k' = nx.k
    /\ UNCHANGED <<machine_targets, mpi_targets, args, objVars, parseVars>>

Next == ShowTargets \/ Begin \/ BaseStage \/ FinalStage

Spec == Init /\ [][Next]_vars

----------------------------------------------------------------------------
(* Properties of a run of main() *)

StageNo(stage) == IF stage = "base" THEN 1 ELSE 2

\* position a comes before position b in the order of the nested loop
Before(a, b) ==
    \/ a.mi < b.mi
    \/ a.mi = b.mi /\ a.pi < b.pi
    \/ a.mi = b.mi /\ a.pi = b.pi /\ StageNo(a.stage) < StageNo(b.stage)

\* the places of the declared target matrix
Places ==
    {p \in [mi : 1..Len(machine_targets), pi : 0..Len(mpi_targets),
            stage : {"base", "final"}] :
        IF machine_targets[p.mi] = s_generic THEN p.pi >= 1 ELSE p.pi = 0}

PlaceOf(c) == [mi |-> c.mi, pi |-> c.pi, stage |-> c.stage]

\* C1: the stage calls of main() follow the lists: each call is made with
\* the machine and MPI name of its place, the calls are made in the order of
\* the nested loop (base before final) without skipping a place, a completed
\* run has called every place, and once a stage has raised nothing is written
\* or built for the other stage of that target or for any later target.
C1_OrderedAbortOnFirstError ==
    /\ \A i \in DOMAIN visited :
          LET c == visited[i] IN
          /\ PlaceOf(c) \in Places
          /\ c.machine = machine_targets[c.mi]
          /\ c.mpi = IF c.pi = 0 THEN PyNone ELSE PyStr(mpi_targets[c.pi])
          /\ \A p \in Places :
                Before(p, c) => \E j \in 1..(i - 1) : PlaceOf(visited[j]) = p
          /\ \A j \in 1..(i - 1) : Before(visited[j], c) /\ ~visited[j].raised
          /\ c.raised =>
                /\ pc = "aborted"
                /\ \A e \in 1..Len(events) :
                      \/ events[e].k < c.k
                      \/ events[e].k = c.k
                         /\ StageNo(events[e].stage) <= StageNo(c.stage)
    /\ \A e \in 1..Len(events) :
          \E i \in DOMAIN visited :
             visited[i].k = events[e].k /\ visited[i].stage = events[e].stage
    /\ pc = "done" => \A p \in Places : \E i \in DOMAIN visited : PlaceOf(visited[i]) = p

\* an aborted run that had effects before the failing stage and targets left
C1_Witness ==
    /\ pc = "aborted"
    /\ Len(events) > 0
    /\ k < Len(Targets)

EventsOf(kk, stage, op) ==
    {e \in 1..Len(events) :
        events[e].k = kk /\ events[e].stage = stage /\ events[e].op = op}

FlagOf(stage) == IF stage = "base" THEN args.base_image ELSE args.final_image

\* C2: the external tool is started for a stage only when that stage's flag
\* is set; a stage that returns with its flag unset has written its recipe
\* and then printed its command; a completed run with neither flag set has
\* started no build while every stage of every target wrote one recipe and
\* printed one command.
C2_BuildOnlyWhenFlagged ==
    /\ \A e \in 1..Len(events) :
          events[e].op = "build" => FlagOf(events[e].stage)
    /\ \A i \in DOMAIN visited :
          LET c == visited[i] IN
          (~c.raised /\ ~FlagOf(c.stage)) =>
             /\ Cardinality(EventsOf(c.k, c.stage, "write")) = 1
             /\ Cardinality(EventsOf(c.k, c.stage, "print")) = 1
             /\ \A w \in EventsOf(c.k, c.stage, "write") :
                   \A q \in EventsOf(c.k, c.stage, "print") : w < q
    /\ (pc = "done" /\ ~args.base_image /\ ~args.final_image) =>
          /\ \A e \in 1..Len(events) : events[e].op # "build"
          /\ \A kk \in 1..Len(Targets) : \A stage \in {"base", "final"} :
                /\ Cardinality(EventsOf(kk, stage, "write")) = 1
                /\ Cardinality(EventsOf(kk, stage, "print")) = 1

\* a completed dry run over at least two targets
C2_Witness ==
    /\ pc = "done"
    /\ ~args.base_image /\ ~args.final_image
    /\ Len(Targets) >= 2
    /\ Len(events) = 4 * Len(Targets)

\* no two iterations of the loop have the same (machine, MPI name)
DistinctTargets ==
    \A i, j \in 1..Len(Targets) :
        (Targets[i].machine = Targets[j].machine /\ Targets[i].mpi = Targets[j].mpi)
            => i = j

\* C3: after a completed run over pairwise distinct targets every stage of
\* every target has a recipe file of its own (no other stage of the run
\* wrote a file of that name) that holds the text generated for that stage.
C3_OwnRecipePerTarget ==
    (pc = "done" /\ DistinctTargets) =>
        \A kk \in 1..Len(Targets) : \A stage \in {"base", "final"} :
            \E e \in EventsOf(kk, stage, "write") :
               /\ events[e].name \in DOMAIN fs
               /\ fs[events[e].name] = events[e].data
               /\ \A e2 \in 1..Len(events) :
                     (events[e2].op = "write" /\ events[e2].name = events[e].name)
                        => (events[e2].k = kk /\ events[e2].stage = stage)

\* the command "docker build ... -t image -f recipe ." of a stage
CommandFor(image, recipe) ==
    s_docker_build \o image \o s_dash_f \o recipe \o s_dot

\* C4: the foundation layer of every final recipe written by main() names
\* the image the base stage of the same target was given in the same run:
\* the image_name of the object that base stage returned, which is the image
\* its own build command tags.
C4_FinalBuiltOnOwnBase ==
    \A e \in 1..Len(events) :
        (events[e].op = "write" /\ events[e].stage = "final") =>
            \E i \in DOMAIN visited :
               /\ visited[i].k = events[e].k
               /\ visited[i].stage = "base"
               /\ ~visited[i].raised
               /\ events[e].data[2] = Seg("FROM", <<visited[i].image_name>>)
               /\ \A n \in 1..Len(events[e].data) :
                     events[e].data[n].tag = "FROM" => n = 2
               /\ \E w \in EventsOf(events[e].k, "base", "write") :
                  \E b \in 1..Len(events) :
                     /\ events[b].k = events[e].k /\ events[b].stage = "base"
                     /\ events[b].op \in {"build", "print"}
                     /\ events[b].name =
                           CommandFor(visited[i].image_name, events[w].name)

\* a completed run whose first two targets have different base images
C4_Witness ==
    /\ pc = "done"
    /\ \E i, j \in DOMAIN visited :
          /\ visited[i].stage = "base" /\ visited[j].stage = "base"
          /\ visited[i].k = 1 /\ visited[j].k = 2
          /\ visited[i].image_name # visited[j].image_name
    /\ Cardinality(EventsOf(2, "final", "write")) = 1

RECURSIVE RunOk(_, _, _, _, _)
RunOk(kk, stage, dk, files, acc) ==
    LET t == Targets[kk]
        r == IF stage = "base"
             THEN make_base_image(t.machine, t.mpi, base_prepend, base_append,
                                  args.base_image, files, "ok")
             ELSE make_final_image(t.machine, t.mpi, final_prepend, final_append,
                                   dk.image_name, args.final_image, files, "ok")
        nx == main_after(stage, r.raised, kk, Len(Targets))
        ev == acc \o Tag(r.effects, kk, stage)
    IN IF nx.pc \in {"done", "aborted"}
       THEN [pc |-> nx.pc, k |-> nx.k, events |-> ev]
       ELSE RunOk(nx.k, nx.pc,
                  IF r.raised THEN dk ELSE assign_docker(dk, r.docker),
                  r.fs, ev)

AllOkRun ==
    IF Len(Targets) = 0 THEN [pc |-> "done", k |-> 0, events |-> << >>]
    ELSE RunOk(1, "base", DockerClass, << >>, << >>)

\* C9: whatever the exit statuses of the external builds, the run writes,
\* builds and prints what the run in which every build succeeds does, in the
\* same order, and ends where that run ends.
C9_BuildOutcomeIgnored ==
    pc \in {"done", "aborted"} =>
       LET ok == AllOkRun IN
       /\ events = ok.events
       /\ pc = ok.pc
       /\ k = ok.k

\* a run that went through every stage although a base-stage build of its
\* first target had failed
C9_Witness ==
    /\ pc = "done"
    /\ any_failed
    /\ Len(Targets) >= 2
    /\ args.base_image /\ args.final_image

----------------------------------------------------------------------------
(* A DockerClass object driven by an arbitrary caller *)

t_one == <<Seg("text", <<<<"1">>>>)>>
t_two == <<Seg("text", <<<<"2">>>>)>>

\* arguments of the name setters: no string, the empty string, two proper
\* names, and names holding each of the forbidden characters
NameArgs ==
    {PyNone, PyStr(<< >>), PyStr(<<"a">>), PyStr(<<"b">>)}
    \cup {PyStr(<<"a", forbidden_chars[i]>>) : i \in 1..Len(forbidden_chars)}

RecipeArgs == {PyNone, PyStr(<< >>), PyStr(t_one), PyStr(t_two)}

Result(op, arg, raised, ret, ran) ==
    [op |-> op, arg |-> arg, raised |-> raised, ret |-> ret, ran |-> ran]

InitObj ==
    /\ machine_targets = << >>
    /\ mpi_targets = << >>
    /\ args = [base_image |-> FALSE, final_image |-> FALSE,
               show_targets_only |-> FALSE]
    /\ pc = "object"
    /\ k = 0
    /\ docker = DockerClass
    /\ fs \in {<< >>, WriteFile(<< >>, <<"a">>, t_two)}
    /\ events = << >>
    /\ visited = << >>
    /\ any_failed = FALSE
    /\ InitIdle

SetRecipeName ==
    /\ pc = "object"
    /\ \E a \in NameArgs :
          \E r \in {set_recipe_name(obj, a)} :
          /\ obj' = r.self
          /\ result' = Result("set_recipe_name", a, r.raised, << >>, FALSE)
    /\ UNCHANGED <<mainVars, fs, parseVars>>

SetRecipe ==
    /\ pc = "object"
    /\ \E a \in RecipeArgs :
          \E r \in {set_recipe(obj, a)} :
          /\ obj' = r.self
          /\ result' = Result("set_recipe", a, r.raised, << >>, FALSE)
    /\ UNCHANGED <<mainVars, fs, parseVars>>

SetImageName ==
    /\ pc = "object"
    /\ \E a \in NameArgs :
          \E r \in {set_image_name(obj, a)} :
          /\ obj' = r.self
          /\ result' = Result("set_image_name", a, r.raised, << >>, FALSE)
    /\ UNCHANGED <<mainVars, fs, parseVars>>

WriteRecipe ==
    /\ pc = "object"
    /\ \E r \in {write_recipe(obj, fs)} :
          /\ fs' = r.fs
          /\ result' = Result("write_recipe", PyNone, r.raised, << >>, FALSE)
    /\ UNCHANGED <<mainVars, obj, parseVars>>

GetBuildCommand ==
    /\ pc = "object"
    /\ \E r \in {get_build_command(obj)} :
          result' = Result("get_build_command", PyNone, r.raised, r.ret, FALSE)
    /\ UNCHANGED <<mainVars, obj, fs, parseVars>>

BuildImage ==
    /\ pc = "object"
    /\ \E rc \in ExitCodes :
          \E r \in {build_image(obj, fs, rc)} :
          result' = Result("build_image", PyNone, r.raised, r.cmd, r.ran)
    /\ UNCHANGED <<mainVars, obj, fs, parseVars>>

NextObj ==
    \/ SetRecipeName \/ SetRecipe \/ SetImageName
    \/ WriteRecipe \/ GetBuildCommand \/ BuildImage

SpecObj == InitObj /\ [][NextObj]_vars

\* the script run by main(), or an object of the class used on its own
SpecAll == (Init \/ InitObj) /\ [][Next \/ NextObj]_vars

----------------------------------------------------------------------------
(* Properties of a DockerClass object *)

\* C6: write_recipe writes the file recipe_name with the recipe text exactly
\* when recipe_name and recipe are both set and otherwise raises and leaves
\* the disk alone; get_build_command returns
\* "docker build --no-cache --pull -t <image_name> -f <recipe_name> ."
\* exactly when recipe_name and image_name are both set and otherwise
\* raises; neither changes a field of the object.
C6_PersistAndCommandGuards ==
    [][ /\ result'.op = "write_recipe" =>
             /\ obj' = obj
             /\ ~result'.raised <=> (obj.recipe_name # << >> /\ obj.recipe # << >>)
             /\ result'.raised => fs' = fs
             /\ ~result'.raised =>
                   /\ DOMAIN fs' = (DOMAIN fs) \cup {obj.recipe_name}
                   /\ fs'[obj.recipe_name] = obj.recipe
                   /\ \A n \in DOMAIN fs : n # obj.recipe_name => fs'[n] = fs[n]
        /\ result'.op = "get_build_command" =>
             /\ obj' = obj
             /\ fs' = fs
             /\ ~result'.raised <=> (obj.recipe_name # << >> /\ obj.image_name # << >>)
             /\ ~result'.raised =>
                   result'.ret = CommandFor(obj.image_name, obj.recipe_name)
      ]_vars

\* write_recipe replaced a file that was on disk with the object's recipe
C6_Witness ==
    /\ result.op = "write_recipe"
    /\ ~result.raised
    /\ obj.recipe_name = <<"a">>
    /\ obj.recipe = t_one
    /\ fs[<<"a">>] = t_one
    /\ obj.image_name = << >>

\* a name is_proper_name accepts: not empty, none of the listed characters
Accepted(name) ==
    /\ name # << >>
    /\ \A j \in 1..Len(name) :
          name[j] \notin {"?", "!", "@", "#", "$", "%", "^", "&", "*", " ", ";",
                          "<", ">", "|", "\"", "BEL", "BS", "\f", "\n", "\r",
                          "\t", "VT"}

Setters == {"set_recipe_name", "set_recipe", "set_image_name"}

FieldOf(op) ==
    IF op = "set_recipe_name" THEN "recipe_name"
    ELSE IF op = "set_image_name" THEN "image_name" ELSE "recipe"

ValidFor(op, a) ==
    /\ a.type = "str"
    /\ IF op = "set_recipe" THEN a.val # << >> ELSE Accepted(a.val)

\* C7: whatever setters were called with whatever arguments, recipe_name and
\* image_name are each empty or a name is_proper_name accepts and recipe is
\* empty or a non-empty text; a setter call whose argument fails validation
\* raises and leaves the three fields as they were, and a call that succeeds
\* stores its argument in its own field and leaves the other two alone.
C7_ValidatedSetters ==
    /\ [](/\ obj.recipe_name = << >> \/ Accepted(obj.recipe_name)
          /\ obj.image_name = << >> \/ Accepted(obj.image_name)
          /\ obj.recipe \in {<< >>, t_one, t_two})
    /\ [][ result'.op \in Setters =>
             IF ValidFor(result'.op, result'.arg)
             THEN /\ ~result'.raised
                  /\ obj'[FieldOf(result'.op)] = result'.arg.val
                  /\ \A f \in {"recipe_name", "image_name", "recipe"} :
                        f # FieldOf(result'.op) => obj'[f] = obj[f]
             ELSE /\ result'.raised
                  /\ obj' = obj
         ]_vars

\* a setter raised on an object whose three fields were already set
C7_Witness ==
    /\ result.op = "set_image_name"
    /\ result.raised
    /\ result.arg = PyStr(<<"a", " ">>)
    /\ obj.recipe_name = <<"a">>
    /\ obj.image_name = <<"b">>
    /\ obj.recipe = t_one

\* C8: build_image starts the external tool exactly when recipe_name and
\* image_name are set and a file named recipe_name is on disk, then with the
\* string get_build_command returns, and raises without starting it in every
\* other state; in a run of main() every build of a stage comes after the
\* write of that stage's recipe file, which is the file its command names.
C8_BuildNeedsRecipeFile ==
    /\ [][ result'.op = "build_image" =>
             /\ obj' = obj
             /\ fs' = fs
             /\ result'.ran <=>
                   (/\ obj.recipe_name # << >>
                    /\ obj.image_name # << >>
                    /\ obj.recipe_name \in DOMAIN fs)
             /\ result'.ran =>
                   /\ ~result'.raised
                   /\ result'.ret = CommandFor(obj.image_name, obj.recipe_name)
             /\ ~result'.ran => result'.raised
         ]_vars
    /\ [](\A b \in 1..Len(events) :
            events[b].op = "build" =>
               \E w \in 1..(b - 1) : \E c \in DOMAIN visited :
                  /\ events[w].op = "write"
                  /\ events[w].k = events[b].k
                  /\ events[w].stage = events[b].stage
                  /\ events[w].name \in DOMAIN fs
                  /\ visited[c].k = events[b].k
                  /\ visited[c].stage = events[b].stage
                  /\ events[b].name =
                        CommandFor(visited[c].image_name, events[w].name))

\* build_image started the tool on a file the object itself never wrote
C8_Witness ==
    /\ result.op = "build_image"
    /\ result.ran
    /\ obj.recipe = << >>
    /\ obj.recipe_name \in DOMAIN fs

----------------------------------------------------------------------------
(* get_mpi_type_and_version applied to one name *)

\* the names tried: a head that is, or nearly is, one of the two kinds,
\* followed by every tail of up to MaxTail characters
ParseHeads ==
    {<< >>, <<"m", "p", "i">>, s_mpich, <<"m", "p", "i", "c", "x">>,
     s_openmp, s_openmpi, <<"o", "p", "e", "n", "m", "p", "x">>}
TailChars == {".", "0", "1"}
ParseInputs == {h \o t : h \in ParseHeads, t \in SeqsUpTo(TailChars, MaxTail)}

InitParse ==
    /\ machine_targets = << >>
    /\ mpi_targets = << >>
    /\ args = [base_image |-> FALSE, final_image |-> FALSE,
               show_targets_only |-> FALSE]
    /\ pc = "parse"
    /\ k = 0
    /\ docker = DockerClass
    /\ fs = << >>
    /\ events = << >>
    /\ visited = << >>
    /\ any_failed = FALSE
    /\ obj = DockerClass
    /\ result = [op |-> "none", arg |-> PyNone, raised |-> FALSE,
                 ret |-> << >>, ran |-> FALSE]
    /\ name_in \in ParseInputs
    /\ parsed = [done |-> FALSE, r |-> ParseError]

Parse ==
    /\ pc = "parse"
    /\ ~parsed.done
    /\ parsed' = [done |-> TRUE, r |-> get_mpi_type_and_version(PyStr(name_in))]
    /\ UNCHANGED <<mainVars, fs, objVars, name_in>>

SpecParse == InitParse /\ [][Parse]_vars

\* the places where a maximal digit run of t starts and ends
RunStarts(t) == {i \in 1..Len(t) : IsDigit(t[i]) /\ (i = 1 \/ ~IsDigit(t[i - 1]))}
RunEnd(t, i) ==
    CHOOSE j \in i..Len(t) :
        /\ \A n \in i..j : IsDigit(t[n])
        /\ j = Len(t) \/ ~IsDigit(t[j + 1])
\* the n-th smallest element of a set of places
Nth(S, n) == CHOOSE i \in S : Cardinality({j \in S : j <= i}) = n

VersionAfter(s, from) ==
    LET t == SubSeq(s, from + 1, Len(s)) IN
    [n \in 1..3 |-> int(SubSeq(t, Nth(RunStarts(t), n), RunEnd(t, Nth(RunStarts(t), n))))]

HasVersionAfter(s, head, from) ==
    /\ Len(s) > 7
    /\ SubSeq(s, 1, Len(head)) = head
    /\ Cardinality(RunStarts(SubSeq(s, from + 1, Len(s)))) = 3

\* C10: the parser returns (mpich, None) exactly for "mpich", (openmpi, None)
\* exactly for "openmpi", (mpich, v) exactly for a name longer than 7 that
\* starts with "mpich" and has three maximal digit runs from index 6 on,
\* (openmpi, v) exactly for a name longer than 7 that starts with "openmpi"
\* and has three maximal digit runs from index 8 on, and raises for every
\* other name; v is the three runs as integers in order of appearance.
C10_StrictDispatch ==
    parsed.done =>
       LET s == name_in
           r == parsed.r
           mpichV == HasVersionAfter(s, s_mpich, 6)
           openV == HasVersionAfter(s, s_openmpi, 8)
       IN /\ (~r.raised /\ r.mpi_type = s_mpich /\ ~r.mpi_num.isList) <=> s = s_mpich
          /\ (~r.raised /\ r.mpi_type = s_openmpi /\ ~r.mpi_num.isList) <=> s = s_openmpi
          /\ (~r.raised /\ r.mpi_type = s_mpich /\ r.mpi_num.isList) <=> mpichV
          /\ (~r.raised /\ r.mpi_type = s_openmpi /\ r.mpi_num.isList) <=> openV
          /\ r.raised <=> ~(s = s_mpich \/ s = s_openmpi \/ mpichV \/ openV)
          /\ (Len(s) < 5 \/ Len(s) = 6) => r.raised
          /\ ~r.raised => r.mpi_type \in {s_mpich, s_openmpi}
          /\ (~r.raised /\ r.mpi_num.isList) =>
                /\ Len(r.mpi_num.list) = 3
                /\ \A n \in 1..3 : r.mpi_num.list[n] \in Nat
                /\ \A n \in 1..3 :
                      r.mpi_num.list[n] =
                         VersionAfter(s, IF r.mpi_type = s_mpich THEN 6 ELSE 8)[n]

\* a versioned name whose separator is a digit and whose runs have leading
\* zeros and several digits
C10_Witness ==
    /\ parsed.done
    /\ ~parsed.r.raised
    /\ name_in = s_mpich \o <<"1", "0", "1", ".", "1", "0", ".", "0">>
    /\ parsed.r.mpi_num.list = <<1, 10, 0>>

----------------------------------------------------------------------------
(* Batch files *)

s_sample == <<"s", "a", "m", "p", "l", "e", "-">>
s_sbatch == <<".", "s", "b", "a", "t", "c", "h">>
s_mpich_module == <<"m", "p", "i", "c", "h", "/", "3", ".", "3", ".", "0">>
s_mpich_sif == <<"y", "a", "n", "d", "a", "s", "o", "f", "t", "-", "m", "p", "i",
                 "c", "h", "_", "l", "a", "t", "e", "s", "t", ".", "s", "i", "f">>
s_openmpi_slash == <<"o", "p", "e", "n", "m", "p", "i", "/">>
s_ofed == <<"-", "o", "f", "e", "d", "4", "5", "-", "g", "c", "c">>
s_yandasoft_dash == <<"y", "a", "n", "d", "a", "s", "o", "f", "t", "-">>
s_latest_sif == <<"_", "l", "a", "t", "e", "s", "t", ".", "s", "i", "f">>

\* the common part with the generated-file line put above the interpreter line
batch_common_part_notice_first ==
    <<Seg("batch_notice", << >>), Seg("shebang", << >>),
      Seg("sbatch_settings", << >>), Seg("module_singularity", << >>)>>

\* batch_common_part, line by line: the interpreter line, the line
\* "## This file is automatically created by ...", then the SBATCH settings
\* and the singularity module
batch_common_part ==
    <<Seg("shebang", << >>), Seg("batch_notice", << >>),
      Seg("sbatch_settings", << >>), Seg("module_singularity", << >>)>>

\* batch_mpi_part for a module and an image: the module line and the mpirun line
batch_mpi_part(kind, module, image) ==
    <<Seg("module_load", <<module>>), Seg(kind, <<image>>)>>

batch_file_name(machine, mpi) == s_sample \o machine \o <<"-">> \o mpi \o s_sbatch

\* make_batch_file(machine, mpi) on the disk files.  mpi_ver is the string
\* compose_version_number returns, so the test mpi_ver != None compares a
\* string with None.  Were it false, batch_mpi_part would be unbound when the
\* file, already opened for writing, is about to be written.
make_batch_file(machine, mpi, files) ==
    LET p == get_mpi_type_and_version(mpi) IN
    IF p.raised
    THEN [raised |-> TRUE, fs |-> files, effects |-> << >>]
    ELSE
    LET mpi_ver == compose_version_number(p.mpi_num)
        batch_file == batch_file_name(machine, mpi.val)
        made == Effect("print", batch_file, << >>)
    IN
    IF p.mpi_type = s_mpich
    THEN LET text == batch_common_part
                     \o batch_mpi_part("mpirun", s_mpich_module, s_mpich_sif)
         IN [raised |-> FALSE, fs |-> WriteFile(files, batch_file, text),
             effects |-> <<made, Effect("write", batch_file, text)>>]
    ELSE IF p.mpi_type = s_openmpi
    THEN IF PyStr(mpi_ver) # PyNone
         THEN LET text == batch_common_part
                          \o batch_mpi_part("mpirun_oversubscribe",
                                            s_openmpi_slash \o mpi_ver \o s_ofed,
                                            s_yandasoft_dash \o mpi_ver \o s_latest_sif)
              IN [raised |-> FALSE, fs |-> WriteFile(files, batch_file, text),
                  effects |-> <<made, Effect("write", batch_file, text)>>]
         ELSE [raised |-> TRUE, fs |-> WriteFile(files, batch_file, << >>),
               effects |-> <<made>>]
    ELSE [raised |-> TRUE, fs |-> files, effects |-> << >>]

\* the number of batch files a run of calls may leave on disk
MaxBatch == 2

BatchMpis == {PyStr(m) : m \in MpiNames} \cup {PyNone}

InitBatch ==
    /\ machine_targets = << >>
    /\ mpi_targets = << >>
    /\ args = [base_image |-> FALSE, final_image |-> FALSE,
               show_targets_only |-> FALSE]
    /\ pc = "batch"
    /\ k = 0
    /\ docker = DockerClass
    /\ fs = << >>
    /\ events = << >>
    /\ visited = << >>
    /\ any_failed = FALSE
    /\ InitIdle

\* one call make_batch_file(machine, mpi); result keeps the call and its
\* outcome, ret the effects of the call
MakeBatchFile ==
    /\ pc = "batch"
    /\ Cardinality(DOMAIN fs) < MaxBatch
    /\ \E machine \in MachineNames, mpi \in BatchMpis :
         \E r \in {make_batch_file(machine, mpi, fs)} :
            /\ fs' = r.fs
            /\ result' = Result("make_batch_file",
                                [type |-> "batch", val |-> <<machine, mpi>>],
                                r.raised, r.effects, FALSE)
    /\ UNCHANGED <<mainVars, obj, parseVars>>

SpecBatch == InitBatch /\ [][MakeBatchFile]_vars

\* C11: a call make_batch_file(machine, "openmpi") fails and writes no batch
\* file: the call raises, and no file sample-<machine>-openmpi.sbatch is ever
\* on disk.
C11_OpenmpiBatchFails ==
    /\ (result.op = "make_batch_file" /\ result.arg.val[2] = PyStr(s_openmpi))
          => (result.raised /\ result.ret = << >>)
    /\ \A machine \in MachineNames :
          batch_file_name(machine, s_openmpi) \notin DOMAIN fs

----------------------------------------------------------------------------
(* The stage functions under direct calls *)

s_p == <<"p", ":">>
s_x == <<"-", "x">>
s_a_b == <<"a", " ">>
s_openmpi_1016 == <<"o", "p", "e", "n", "m", "p", "i", "-", "1", "0", ".", "1", ".", "6">>
s_mpich_0332 == <<"m", "p", "i", "c", "h", "-", "0", "3", ".", "3", ".", "2">>

StageMpis == {PyStr(m) : m \in MpiNames \cup {s_openmpi_1016, s_mpich_0332}}
                \cup {PyNone}
Prefixes == {s_p, << >>, base_prepend, s_a_b}
Suffixes == {<< >>, s_x}

\* the base image a direct call of make_final_image is given when no base
\* stage came before it
s_base_default == base_prepend \o s_mpich

InitStage ==
    /\ machine_targets = << >>
    /\ mpi_targets = << >>
    /\ args = [base_image |-> FALSE, final_image |-> FALSE,
               show_targets_only |-> FALSE]
    /\ pc = "stage"
    /\ k = 0
    /\ docker = DockerClass
    /\ fs = << >>
    /\ events = << >>
    /\ visited = << >>
    /\ any_failed = FALSE
    /\ InitIdle

StageArgs(machine, mpi, prepend, append) ==
    [type |-> "stage", val |-> <<machine, mpi, prepend, append>>]

\* one call make_base_image(machine, mpi, prepend, append, actual); docker
\* is the object it returns, result the call and its outcome
BaseCall ==
    /\ pc = "stage"
    /\ result.op = "none"
    /\ \E machine \in MachineNames, mpi \in StageMpis, prepend \in Prefixes,
          append \in Suffixes, actual \in BOOLEAN, rc \in ExitCodes :
         \E r \in {make_base_image(machine, mpi, prepend, append, actual, fs, rc)} :
            /\ fs' = r.fs
            /\ docker' = r.docker
            /\ result' = Result("make_base_image",
                                StageArgs(machine, mpi, prepend, append),
                                r.raised, r.effects, actual)
    /\ UNCHANGED <<machine_targets, mpi_targets, args, pc, k, events, visited,
                   any_failed, obj, parseVars>>

\* one call make_final_image(machine, mpi, prepend, append, base_image,
\* actual): on its own, or after a base stage that returned, for the same
\* target and on the image of that stage
FinalCall ==
    /\ pc = "stage"
    /\ result.op \in {"none", "make_base_image"}
    /\ result.op = "make_base_image" => ~result.raised
    /\ \E machine \in MachineNames, mpi \in StageMpis, prepend \in Prefixes,
          append \in Suffixes, actual \in BOOLEAN, rc \in ExitCodes :
         /\ result.op = "make_base_image" =>
               (machine = result.arg.val[1] /\ mpi = result.arg.val[2])
         /\ \E base_image \in {IF result.op = "none" THEN s_base_default
                                                     ELSE docker.image_name} :
            \E r \in {make_final_image(machine, mpi, prepend, append, base_image,
                                       actual, fs, rc)} :
               /\ fs' = r.fs
               /\ docker' = r.docker
               /\ result' = Result("make_final_image",
                                   StageArgs(machine, mpi, prepend, append),
                                   r.raised, r.effects, actual)
    /\ UNCHANGED <<machine_targets, mpi_targets, args, pc, k, events, visited,
                   any_failed, obj, parseVars>>

NextStage == BaseCall \/ FinalCall

SpecStage == InitStage /\ [][NextStage]_vars

\* every way a file gets written: a run of main(), the stage functions under
\* direct calls, and make_batch_file
SpecFiles ==
    (Init \/ InitStage \/ InitBatch) /\ [][Next \/ NextStage \/ MakeBatchFile]_vars

IsBatchFile(n) == Len(n) >= Len(s_sample) /\ SubSeq(n, 1, Len(s_sample)) = s_sample

\* C12 as stated: every file written, recipe or batch file, has the
\* generated-file line as its first line.
C12_NoticeIsFirstLine ==
    \A n \in DOMAIN fs :
        /\ Len(fs[n]) >= 1
        /\ fs[n][1].tag \in {"header", "batch_notice"}

\* C12: every recipe file written, base or final, has the header as its first
\* line; a batch file has the interpreter line first and its generated-file
\* line second.
C12_NoticePlacement ==
    /\ \A n \in DOMAIN fs :
          IF IsBatchFile(n)
          THEN /\ Len(fs[n]) >= 2
               /\ fs[n][1] = Seg("shebang", << >>)
               /\ fs[n][2] = Seg("batch_notice", << >>)
          ELSE /\ Len(fs[n]) >= 1
               /\ fs[n][1] = header[1]
    /\ \A i \in DOMAIN events :
          events[i].op = "write" =>
             (Len(events[i].data) >= 1 /\ events[i].data[1] = header[1])

\* a batch file is on disk, its generated-file line below the interpreter line
C12_Witness ==
    /\ pc = "batch"
    /\ result.op = "make_batch_file"
    /\ ~result.raised
    /\ \E n \in DOMAIN fs :
          /\ IsBatchFile(n)
          /\ fs[n][1].tag = "shebang"
          /\ fs[n][2].tag = "batch_notice"

\* the label of a target, read off the arguments of the call: the machine
\* name of a named cluster; for the generic machine the kind, then the first
\* integer of the version when the identifier has one
ExpectedLabel(machine, mpi) ==
    IF machine # s_generic THEN machine
    ELSE LET s == mpi.val
             kind == IF SubSeq(s, 1, Len(s_mpich)) = s_mpich THEN s_mpich
                                                             ELSE s_openmpi
         IN IF s = kind THEN kind
            ELSE kind \o str(VersionAfter(s, Len(kind) + 1)[1])

\* the arguments the stage named op accepts
ValidStage(op, machine, mpi, prepend, append) ==
    /\ machine \in {s_generic, s_galaxy}
    /\ machine = s_generic =>
          /\ mpi.type = "str"
          /\ \/ mpi.val \in {s_mpich, s_openmpi}
             \/ HasVersionAfter(mpi.val, s_mpich, 6)
             \/ HasVersionAfter(mpi.val, s_openmpi, 8)
          /\ op = "make_base_image" => mpi.val # s_openmpi
    /\ \A i \in 1..Len(prepend) : prepend[i] \notin forbidden_set
    /\ \A i \in 1..Len(append) : append[i] \notin forbidden_set

\* C13: a stage called with valid (machine, MPI identifier, prefix, suffix)
\* returns an object whose image_name is prefix + label + suffix and whose
\* recipe, written to disk, is named "Dockerfile-yandabase-" + label (base
\* stage) or "Dockerfile-yandasoft-" + label (final stage); a stage returns
\* for valid arguments only.
C13_StageNames ==
    result.op \in {"make_base_image", "make_final_image"} =>
        LET machine == result.arg.val[1]
            mpi == result.arg.val[2]
            prepend == result.arg.val[3]
            append == result.arg.val[4]
            file == (IF result.op = "make_base_image" THEN s_yandabase
                                                      ELSE s_yandasoft)
                    \o ExpectedLabel(machine, mpi)
        IN /\ ValidStage(result.op, machine, mpi, prepend, append) <=> ~result.raised
           /\ ~result.raised =>
                 /\ docker.image_name = prepend \o ExpectedLabel(machine, mpi) \o append
                 /\ docker.recipe_name = file
                 /\ file \in DOMAIN fs
                 /\ fs[file] = docker.recipe

\* the base stage for (generic, "openmpi-3.1.6", "p:", "") has returned
\* "p:openmpi3" and "Dockerfile-yandabase-openmpi3"
C13_Witness ==
    /\ result.op = "make_base_image"
    /\ result.arg.val = <<s_generic, PyStr(s_openmpi_316), s_p, << >> >>
    /\ ~result.raised
    /\ docker.image_name = <<"p", ":", "o", "p", "e", "n", "m", "p", "i", "3">>
    /\ docker.recipe_name = <<"D", "o", "c", "k", "e", "r", "f", "i", "l", "e", "-",
                              "y", "a", "n", "d", "a", "b", "a", "s", "e", "-",
                              "o", "p", "e", "n", "m", "p", "i", "3">>

----------------------------------------------------------------------------
(* The aborted run *)

\* the latest write of the file named n
LastWriteOf(n) ==
    CHOOSE e \in 1..Len(events) :
        /\ events[e].op = "write" /\ events[e].name = n
        /\ \A j \in (e + 1)..Len(events) :
              ~(events[j].op = "write" /\ events[j].name = n)

\* C14: when main() has aborted at a stage of target k, every stage before
\* it (both stages of targets 1..k-1, and the base stage of target k when the
\* final stage failed) has written its recipe, the file is on disk with the
\* text last written to it, and its build was started when its flag is set.
C14_NoRollbackOnAbort ==
    pc = "aborted" =>
        LET failed == visited[Len(visited)] IN
        /\ failed.raised
        /\ failed.k = k
        /\ \A kk \in 1..k : \A stage \in {"base", "final"} :
              (kk < k \/ (stage = "base" /\ failed.stage = "final")) =>
                 /\ EventsOf(kk, stage, "write") # {}
                 /\ \A w \in EventsOf(kk, stage, "write") :
                       /\ events[w].name \in DOMAIN fs
                       /\ fs[events[w].name] = events[LastWriteOf(events[w].name)].data
                 /\ FlagOf(stage) => EventsOf(kk, stage, "build") # {}

\* a run that aborted at its second target or later after building the
\* images of the targets before it, whose recipes are on disk
C14_Witness ==
    /\ pc = "aborted"
    /\ k >= 2
    /\ args.base_image /\ args.final_image
    /\ EventsOf(1, "base", "build") # {}
    /\ EventsOf(1, "final", "build") # {}
    /\ Cardinality(DOMAIN fs) >= 2

====
